---- MODULE Spec2Model ----
(***************************************************************************)
(* Model of the transit-card reader: CardReader (src/card_reader.py) and   *)
(* the read_card handler of CardReaderApp (src/ui.py).                     *)
(*                                                                         *)
(* Bytes are integers 0..255, byte strings are sequences of bytes, text    *)
(* strings are sequences of code points.  Python index i is index i+1.     *)
(* An action is one exchange with the outside world (a transmit, a         *)
(* connect, a disconnect) together with the local code of the same         *)
(* function that follows it up to the next exchange.                       *)
(***************************************************************************)
EXTENDS Integers, Sequences, FiniteSets, TLC

\* ------------------------------------------------------------------ bounds
\* max_records when read_card_info calls read_transactions (the default of
\* the parameter is 10; the session model runs the slot loop this far)
MaxRecords == 1

\* largest max_records that read_transactions is called with on its own
MaxSlots == 2
\* longest data of an answer to the stored-value query, when read_balance
\* is called on its own
MaxData == 5
\* bytes an answer may carry beyond the 23 of a record or the 28 of the
\* identity file, when the parsers are called on their own
MaxExtra == 1

\* ------------------------------------------------------------ the build
\* TRUE when strftime of the C library pads a year below 1000 to four digits
VARIABLE pad_year

\* ------------------------------------------------------- program constants
\* Optional values: None is the empty tuple, a present value x is <<x>>
None == <<>>
Some(x) == <<x>>

\* SUPPORTED_AIDS: (identifier bytes, label)
AID_PRIMARY == <<160, 0, 0, 6, 50, 1, 1, 5>>
AID_FALLBACK == <<160, 0, 0, 6, 50, 1, 1, 6>>
SUPPORTED_AIDS ==
    << [aid |-> AID_PRIMARY, name |-> "primary AID"],
       [aid |-> AID_FALLBACK, name |-> "fallback AID"] >>

\* default of max_records in read_transactions
DEFAULT_MAX_RECORDS == 10
\* max_records of DEFAULT_CONFIG
CONFIG_MAX_RECORDS == 20

\* variant of DEFAULT_SFIS: the candidates in ascending order
DEFAULT_SFIS_Ascending == <<2, 3, 15, 18, 21, 24>>

\* default of possible_sfis in read_transactions
DEFAULT_SFIS == <<24, 21, 18, 15, 3, 2>>

\* variant of TRANSACTION_TYPES: a table of two entries
TRANSACTION_TYPES_TwoEntries == [c \in {9, 2} |->
    CASE c = 9 -> "subway" [] c = 2 -> "top-up"]

\* TRANSACTION_TYPES
TRANSACTION_TYPES == [c \in {9, 2, 6, 5} |->
    CASE c = 9 -> "subway" [] c = 2 -> "top-up" [] c = 6 -> "bus" [] c = 5 -> "purchase"]

\* the sentinel "unknown date/time" string, as code points
UNKNOWN_DATETIME == <<26410, 30693, 26085, 26399, 26102, 38388>>

SW_OK == <<144, 0>>

\* ---------------------------------------------------------------- helpers
Last(s) == s[Len(s)]

\* a[lo:hi] of Python on a sequence (0-based, hi exclusive, clipped)
Slice(s, lo, hi) ==
    LET h == IF hi > Len(s) THEN Len(s) ELSE hi
    IN  IF lo >= h THEN <<>> ELSE SubSeq(s, lo + 1, h)

RECURSIVE FromBytesBig(_)
\* int.from_bytes(b, "big")
FromBytesBig(b) ==
    IF b = <<>> THEN 0
    ELSE FromBytesBig(SubSeq(b, 1, Len(b) - 1)) * 256 + Last(b)

\* code point of the uppercase hex digit of a nibble
HexChar(n) == IF n < 10 THEN 48 + n ELSE 55 + n

RECURSIVE HexUpper(_)
\* ''.join(f"{byte:02X}" for byte in data)  /  data.hex().upper()
HexUpper(data) ==
    IF data = <<>> THEN <<>>
    ELSE <<HexChar(Head(data) \div 16), HexChar(Head(data) % 16)>> \o HexUpper(Tail(data))

RECURSIVE toHexString(_)
\* smartcard.util.toHexString: "3B 65 00", bytes separated by one space
toHexString(data) ==
    IF data = <<>> THEN <<>>
    ELSE IF Len(data) = 1 THEN HexUpper(data)
    ELSE HexUpper(<<Head(data)>>) \o <<32>> \o toHexString(Tail(data))

\* str.replace(" ", "")
RemoveSpaces(s) == SelectSeq(s, LAMBDA c : c # 32)

IsHexChar(c) == (c >= 48 /\ c <= 57) \/ (c >= 65 /\ c <= 70) \/ (c >= 97 /\ c <= 102)
HexVal(c) == IF c <= 57 THEN c - 48 ELSE IF c <= 70 THEN c - 55 ELSE c - 87

\* ASCII whitespace, which bytes.fromhex skips between two bytes
IsSpace(c) == c \in {9, 10, 11, 12, 13, 32}

RECURSIVE IsHexText(_)
\* s is made of pairs of hex digits, with whitespace between pairs at most
IsHexText(s) ==
    IF s = <<>> THEN TRUE
    ELSE IF IsSpace(s[1]) THEN IsHexText(Tail(s))
    ELSE IF Len(s) < 2 \/ ~IsHexChar(s[1]) \/ ~IsHexChar(s[2]) THEN FALSE
    ELSE IsHexText(SubSeq(s, 3, Len(s)))

RECURSIVE HexBytes(_)
\* the bytes of a text of hex digit pairs
HexBytes(s) ==
    IF s = <<>> THEN <<>>
    ELSE IF IsSpace(s[1]) THEN HexBytes(Tail(s))
    ELSE <<HexVal(s[1]) * 16 + HexVal(s[2])>> \o HexBytes(SubSeq(s, 3, Len(s)))

\* the bytes of a string of hex digit pairs, None when a pair is broken
HexPairs(s) == IF IsHexText(s) THEN Some(HexBytes(s)) ELSE None

\* bytes.fromhex(s): None stands for the ValueError it raises
BytesFromHex(s) == HexPairs(s)

IsDigit(c) == c >= 48 /\ c <= 57

RECURSIVE DigitsVal(_)
\* int() of a string of decimal digits
DigitsVal(s) ==
    IF s = <<>> THEN 0
    ELSE DigitsVal(SubSeq(s, 1, Len(s) - 1)) * 10 + (Last(s) - 48)

\* two and four decimal digits, zero padded, as code points
Pad2(n) == <<48 + ((n \div 10) % 10), 48 + (n % 10)>>
Pad4(n) == <<48 + ((n \div 1000) % 10), 48 + ((n \div 100) % 10)>> \o Pad2(n)

IsLeap(y) == (y % 4 = 0 /\ y % 100 # 0) \/ y % 400 = 0
DaysInMonth(y, m) ==
    IF m = 2 THEN (IF IsLeap(y) THEN 29 ELSE 28)
    ELSE IF m \in {4, 6, 9, 11} THEN 30 ELSE 31

\* what datetime(...) accepts
ValidDate(y, m, d) == y >= 1 /\ m >= 1 /\ m <= 12 /\ d >= 1 /\ d <= DaysInMonth(y, m)
ValidTime(h, mi, s) == h <= 23 /\ mi <= 59 /\ s <= 59

\* string comparison of Python: a < b
RECURSIVE StrLess(_, _)
StrLess(a, b) ==
    IF b = <<>> THEN FALSE
    ELSE IF a = <<>> THEN TRUE
    ELSE IF Head(a) # Head(b) THEN Head(a) < Head(b)
    ELSE StrLess(Tail(a), Tail(b))

\* ---------------------------------------------------- strptime / strftime
\* The directives of _strptime as prefix matchers: the length of the first
\* alternative of the directive's regular expression that matches at the
\* head of s, 0 when none does.
\* %m : 1[0-2] | 0[1-9] | [1-9]
MatchM2(s) == Len(s) >= 2 /\ ((s[1] = 49 /\ s[2] \in 48..50) \/ (s[1] = 48 /\ s[2] \in 49..57))
MatchM1(s) == Len(s) >= 1 /\ s[1] \in 49..57
\* %d : 3[0-1] | [1-2]\d | 0[1-9] | [1-9] | " "[1-9]
MatchD2(s) == Len(s) >= 2 /\ ((s[1] = 51 /\ s[2] \in 48..49)
                              \/ (s[1] \in 49..50 /\ IsDigit(s[2]))
                              \/ (s[1] = 48 /\ s[2] \in 49..57)
                              \/ (s[1] = 32 /\ s[2] \in 49..57))
MatchD1(s) == Len(s) >= 1 /\ s[1] \in 49..57
\* %Y : \d\d\d\d
MatchY(s) == Len(s) >= 4 /\ \A i \in 1..4 : IsDigit(s[i])

DayVal(s) == IF s[1] = 32 THEN s[2] - 48 ELSE DigitsVal(s)

\* datetime.strptime(s, "%Y%m%d"): [y, m, d], or None for the ValueError.
\* The regular expression takes its first match in backtracking order
\* (two-character alternatives first); text left over is an error.
StrptimeYmd(s) ==
    IF ~MatchY(s) THEN None
    ELSE LET r  == SubSeq(s, 5, Len(s))
             r2 == SubSeq(r, 3, Len(r))
             r1 == SubSeq(r, 2, Len(r))
             lm == IF MatchM2(r) /\ (MatchD2(r2) \/ MatchD1(r2)) THEN 2
                   ELSE IF MatchM1(r) /\ (MatchD2(r1) \/ MatchD1(r1)) THEN 1 ELSE 0
             rd == SubSeq(r, lm + 1, Len(r))
             ld == IF MatchD2(rd) THEN 2 ELSE 1
             y  == DigitsVal(SubSeq(s, 1, 4))
             m  == DigitsVal(SubSeq(r, 1, lm))
             d  == DayVal(SubSeq(rd, 1, ld))
         IN  IF lm = 0 THEN None
             ELSE IF lm + ld # Len(r) THEN None
             ELSE IF ~ValidDate(y, m, d) THEN None
             ELSE Some([y |-> y, m |-> m, d |-> d])

RECURSIVE Decimal(_)
\* the decimal digits of n >= 1, without padding
Decimal(n) == IF n < 10 THEN <<48 + n>> ELSE Decimal(n \div 10) \o <<48 + (n % 10)>>

\* %Y of strftime: the C library decides whether a year below 1000 is
\* padded to four digits ("0999") or not ("999")
FormatYear(y) == IF pad_year \/ y >= 1000 THEN Pad4(y) ELSE Decimal(y)

\* strftime("%Y/%m/%d")
FormatYmd(t) == FormatYear(t.y) \o <<47>> \o Pad2(t.m) \o <<47>> \o Pad2(t.d)

\* %H : 2[0-3] | [0-1]\d ; %M : [0-5]\d ; %S : 6[0-1] | [0-5]\d
\* (on 14 characters every directive has to take two of them)
MatchH2(s) == (s[1] = 50 /\ s[2] \in 48..51) \/ (s[1] \in 48..49 /\ IsDigit(s[2]))
MatchMin2(s) == s[1] \in 48..53 /\ IsDigit(s[2])
MatchS2(s) == (s[1] = 54 /\ s[2] \in 48..49) \/ (s[1] \in 48..53 /\ IsDigit(s[2]))

\* datetime.strptime(s, "%Y%m%d%H%M%S") for the 14 characters that
\* parse_transaction_record passes: the fields, or None for the ValueError
StrptimeYmdHMS(s) ==
    IF Len(s) # 14 \/ ~MatchY(s) THEN None
    ELSE LET f(i) == SubSeq(s, i, i + 1)
         IN  IF ~(MatchM2(f(5)) /\ MatchD2(f(7)) /\ MatchH2(f(9))
                    /\ MatchMin2(f(11)) /\ MatchS2(f(13))) THEN None
             ELSE LET y == DigitsVal(SubSeq(s, 1, 4))
                      m == DigitsVal(f(5))
                      d == DayVal(f(7))
                      h == DigitsVal(f(9))
                      mi == DigitsVal(f(11))
                      sec == DigitsVal(f(13))
                  IN  IF ValidDate(y, m, d) /\ ValidTime(h, mi, sec)
                      THEN Some([y |-> y, m |-> m, d |-> d, h |-> h, mi |-> mi, s |-> sec])
                      ELSE None

\* strftime("%Y-%m-%d %H:%M:%S")
FormatYmdHMS(t) ==
    FormatYear(t.y) \o <<45>> \o Pad2(t.m) \o <<45>> \o Pad2(t.d) \o <<32>>
    \o Pad2(t.h) \o <<58>> \o Pad2(t.mi) \o <<58>> \o Pad2(t.s)

\* ------------------------------------------------------------ record parser
\* the f"unknown({code:02X})" label
UnknownType(code) == <<"unknown", HexUpper(<<code>>)>>

\* variant of parse_transaction_record: the ValueError of bytes.fromhex is
\* not caught
parse_transaction_record_Uncaught(record_hex) ==
    LET b == BytesFromHex(RemoveSpaces(record_hex))
    IN  IF b = None THEN [raised |-> TRUE, value |-> None]
        ELSE LET data == b[1] IN
        IF Len(data) < 23 THEN [raised |-> FALSE, value |-> None]
        ELSE LET date_str == HexUpper(Slice(data, 16, 20))
                 time_str == HexUpper(Slice(data, 20, 23))
                 t == StrptimeYmdHMS(date_str \o time_str)
                 trans_type_code == data[9 + 1]
             IN  [raised |-> FALSE,
                  value |-> Some([
                   amount |-> FromBytesBig(Slice(data, 5, 9)),
                   datetime |-> IF t = None THEN UNKNOWN_DATETIME ELSE FormatYmdHMS(t[1]),
                   transport_type |-> IF trans_type_code \in DOMAIN TRANSACTION_TYPES
                                      THEN <<TRANSACTION_TYPES[trans_type_code]>>
                                      ELSE UnknownType(trans_type_code),
                   station_gate_info |-> HexUpper(Slice(data, 10, 16)),
                   raw |-> record_hex ])]

\* CardReader.parse_transaction_record: a record, or None; raised tells
\* whether an exception leaves it.  amount is in hundredths; a known type
\* label is <<label>>
parse_transaction_record(record_hex) ==
    LET b == BytesFromHex(RemoveSpaces(record_hex))
    IN  IF b = None THEN [raised |-> FALSE, value |-> None]
        ELSE LET data == b[1] IN
        IF Len(data) < 23 THEN [raised |-> FALSE, value |-> None]
        ELSE LET date_str == HexUpper(Slice(data, 16, 20))
                 time_str == HexUpper(Slice(data, 20, 23))
                 t == StrptimeYmdHMS(date_str \o time_str)
                 trans_type_code == data[9 + 1]
             IN  [raised |-> FALSE,
                  value |-> Some([
                   amount |-> FromBytesBig(Slice(data, 5, 9)),
                   datetime |-> IF t = None THEN UNKNOWN_DATETIME ELSE FormatYmdHMS(t[1]),
                   transport_type |-> IF trans_type_code \in DOMAIN TRANSACTION_TYPES
                                      THEN <<TRANSACTION_TYPES[trans_type_code]>>
                                      ELSE UnknownType(trans_type_code),
                   station_gate_info |-> HexUpper(Slice(data, 10, 16)),
                   raw |-> record_hex ])]

\* variant of Precedes: the order without reverse=True
Precedes_Ascending(x, y) == StrLess(x.datetime, y.datetime)

\* variant of Precedes: equal datetime strings change places
Precedes_OrEqual(x, y) == ~StrLess(x.datetime, y.datetime)

\* the order of sort(key=lambda x: x['datetime'], reverse=True): x goes
\* before y when its datetime string is the greater one
Precedes(x, y) == StrLess(y.datetime, x.datetime)

\* list.sort(key=lambda x: x['datetime'], reverse=True): stable, equal keys
\* keep their order
RECURSIVE InsertDesc(_, _)
InsertDesc(sorted, x) ==
    IF sorted = <<>> THEN <<x>>
    ELSE IF Precedes(x, Head(sorted))
         THEN <<x>> \o sorted
         ELSE <<Head(sorted)>> \o InsertDesc(Tail(sorted), x)

RECURSIVE SortDesc(_)
SortDesc(txs) ==
    IF txs = <<>> THEN <<>>
    ELSE InsertDesc(SortDesc(SubSeq(txs, 1, Len(txs) - 1)), Last(txs))

\* ------------------------------------------------------------- the commands
SelectApdu(aid_bytes) == <<0, 164, 4, 0, Len(aid_bytes)>> \o aid_bytes
BALANCE_APDU == <<128, 92, 0, 2, 4>>
\* variant of RecordApdu: P2 without the 0x04 flag
RecordApdu_NoSelector(record_num, sfi) == <<0, 178, record_num, sfi * 8, 0>>

\* (sfi << 3) | 0x04 : the three low bits of sfi << 3 are clear
RecordApdu(record_num, sfi) == <<0, 178, record_num, (sfi * 8) + 4, 0>>
CARD_NUMBER_APDU == <<0, 176, 149, 0, 0>>

IsSelectApdu(a) == Len(a) > 5 /\ SubSeq(a, 1, 4) = <<0, 164, 4, 0>>
IsRecordApdu(a) == Len(a) = 5 /\ a[1] = 0 /\ a[2] = 178
ApduSlot(a) == a[3]
ApduSfi(a) == a[4] \div 8

\* ------------------------------------------- what the transport can answer
\* connection.transmit either returns (data, sw1, sw2) or raises
Answer(data, sw) == [fault |-> FALSE, data |-> data, sw |-> sw]
Fault == [fault |-> TRUE, data |-> <<>>, sw |-> <<0, 0>>]
SW_NOT_FOUND == <<106, 130>>

REC_A == <<0, 0, 0, 0, 1,  0, 0, 1, 244,  9,  1, 2, 3, 4, 5, 6,  32, 36, 1, 1,  16, 0, 0>>
REC_B == <<0, 0, 0, 0, 2,  0, 0, 39, 16,  2,  1, 2, 3, 4, 5, 7,  32, 36, 1, 2,  9, 0, 0>>
REC_SHORT == <<1, 2, 3>>
REC_ZERO == [i \in 1..23 |-> 0]

ID_OK == <<0, 0, 0, 0, 0, 0, 0, 0, 0, 0,  49, 0, 0, 18, 52, 86, 120, 144, 18, 52,
           32, 35, 1, 21,  32, 51, 1, 21>>
ID_BAD_DATE == <<0, 0, 0, 0, 0, 0, 0, 0, 0, 0,  49, 0, 0, 18, 52, 86, 120, 144, 18, 52,
                 32, 35, 19, 21,  32, 51, 1, 21>>

SelectAnswers == {Answer(<<>>, SW_OK), Answer(<<>>, SW_NOT_FOUND), Fault}
BalanceAnswers == {Answer(<<0, 0, 39, 16>>, SW_OK), Answer(<<0, 1>>, SW_OK),
                   Answer(<<>>, SW_NOT_FOUND), Fault}
RecordAnswers == {Answer(REC_A, SW_OK), Answer(REC_B, SW_OK), Answer(REC_SHORT, SW_OK),
                  Answer(REC_ZERO, SW_OK), Answer(<<>>, SW_OK),
                  Answer(<<>>, SW_NOT_FOUND), Fault}
CardNumberAnswers == {Answer(ID_OK, SW_OK), Answer(ID_BAD_DATE, SW_OK), Answer(<<>>, SW_OK),
                      Answer(<<>>, SW_NOT_FOUND), Fault}

\* ------------------------------------------------------------- CardReader
\* Every function below is given the transport's answer to the one command
\* it sends and yields its outcome; raised says that an exception leaves it.

\* transmit_apdu: logs a fault and raises it again
transmit_apdu(r) == [raised |-> r.fault, data |-> r.data, sw |-> r.sw]

\* variant of SelectTry: any answer that is not a fault is taken as accepted
SelectTry_AnyStatus(r) ==
    LET t == transmit_apdu(r)
    IN  IF t.raised THEN "next" ELSE "accepted"

\* variant of SelectTry: a fault is not caught in the loop
SelectTry_FaultAborts(r) ==
    LET t == transmit_apdu(r)
    IN  IF t.raised THEN "raised"
        ELSE IF t.sw = SW_OK THEN "accepted" ELSE "next"

\* one pass of the loop of select_application: "accepted" (return True),
\* "next" (fall through or continue) or "raised"
SelectTry(r) ==
    LET t == transmit_apdu(r)
    IN  IF t.raised THEN "next"
        ELSE IF t.sw = SW_OK THEN "accepted" ELSE "next"

\* variant of read_balance: a transport fault is not caught
read_balance_Uncaught(r) ==
    LET t == transmit_apdu(r)
    IN  IF t.raised THEN [raised |-> TRUE, value |-> None]
        ELSE IF t.sw # SW_OK THEN [raised |-> FALSE, value |-> None]
        ELSE IF Len(t.data) < 4 THEN [raised |-> FALSE, value |-> None]
        ELSE [raised |-> FALSE, value |-> Some(FromBytesBig(Slice(t.data, 0, 4)))]

\* variant of read_balance: the last 4 bytes of the data instead of the
\* first 4
read_balance_LastBytes(r) ==
    LET t == transmit_apdu(r)
    IN  IF t.raised THEN [raised |-> FALSE, value |-> None]
        ELSE IF t.sw # SW_OK THEN [raised |-> FALSE, value |-> None]
        ELSE IF Len(t.data) < 4 THEN [raised |-> FALSE, value |-> None]
        ELSE [raised |-> FALSE,
              value |-> Some(FromBytesBig(Slice(t.data, Len(t.data) - 4, Len(t.data))))]

\* read_balance: the balance in hundredths, or None
read_balance(r) ==
    LET t == transmit_apdu(r)
    IN  IF t.raised THEN [raised |-> FALSE, value |-> None]
        ELSE IF t.sw # SW_OK THEN [raised |-> FALSE, value |-> None]
        ELSE IF Len(t.data) < 4 THEN [raised |-> FALSE, value |-> None]
        ELSE [raised |-> FALSE, value |-> Some(FromBytesBig(Slice(t.data, 0, 4)))]

\* read_card_number: the identity record, or None
read_card_number(r) ==
    LET t == transmit_apdu(r)
    IN  IF t.raised THEN [raised |-> FALSE, value |-> None]
        ELSE IF t.sw # SW_OK \/ t.data = <<>> THEN [raised |-> FALSE, value |-> None]
        ELSE LET full_data_hex == HexUpper(t.data)
                 start == StrptimeYmd(Slice(full_data_hex, 40, 48))
                 valid == StrptimeYmd(Slice(full_data_hex, 48, 56))
             IN  IF start = None \/ valid = None THEN [raised |-> FALSE, value |-> None]
                 ELSE [raised |-> FALSE,
                       value |-> Some([card_number |-> Slice(full_data_hex, 20, 40),
                                       start_date |-> FormatYmd(start[1]),
                                       valid_date |-> FormatYmd(valid[1])])]

\* any(data)
AnyNonZero(data) == \E i \in 1..Len(data) : data[i] # 0

\* variant of SlotHasRecord: without the any(data) test
SlotHasRecord_NoZeroTest(t) == t.sw = SW_OK /\ t.data # <<>>

\* the test of read_transactions on a slot's answer: the slot loop goes on
SlotHasRecord(t) == t.sw = SW_OK /\ t.data # <<>> /\ AnyNonZero(t.data)

\* one pass of the slot loop of read_transactions: go on to the next slot
\* (with the record the parser made of this one, if any) or break
\* variant of ReadSlot: a slot the parser rejects ends the slot loop
ReadSlot_RejectBreaks(r) ==
    LET t == transmit_apdu(r)
    IN  IF t.raised THEN [more |-> FALSE, tx |-> None]
        ELSE IF SlotHasRecord(t)
             THEN LET p == parse_transaction_record(toHexString(t.data))
                  IN  [more |-> ~p.raised /\ p.value # None, tx |-> p.value]
             ELSE [more |-> FALSE, tx |-> None]

\* variant of ReadSlot: a fault on a slot is skipped, the slot loop goes on
ReadSlot_FaultSkips(r) ==
    LET t == transmit_apdu(r)
    IN  IF t.raised THEN [more |-> TRUE, tx |-> None]
        ELSE IF SlotHasRecord(t)
             THEN LET p == parse_transaction_record(toHexString(t.data))
                  IN  [more |-> ~p.raised, tx |-> p.value]
             ELSE [more |-> FALSE, tx |-> None]

ReadSlot(r) ==
    LET t == transmit_apdu(r)
    IN  IF t.raised THEN [more |-> FALSE, tx |-> None]
        ELSE IF SlotHasRecord(t)
             THEN LET p == parse_transaction_record(toHexString(t.data))
                  IN  [more |-> ~p.raised, tx |-> p.value]
             ELSE [more |-> FALSE, tx |-> None]

\* variant of StopAtSfi: without the break
StopAtSfi_Never(sfi_txs) == FALSE

\* the location loop is left once a location has given records
StopAtSfi(sfi_txs) == sfi_txs # <<>>

\* read_card_info: the result as built before any stage
ResultInit ==
    [success |-> FALSE, message |-> "", balance |-> None, transactions |-> <<>>,
     logs |-> <<>>, card_info |-> None]

Log(res, tag, val) == [res EXCEPT !.logs = Append(@, [tag |-> tag, val |-> val])]

\* variant of AfterSelect: without the return on failure
AfterSelect_NoReturn(ok) == "balance"

\* read_card_info after select_application: where it goes on
AfterSelect(ok) == IF ok THEN "balance" ELSE "return"

\* read_card_info, the except clause of its try block
OnException(res) == Log([res EXCEPT !.message = "read failed"], "read failed", <<>>)

\* read_card_info after the first read_balance
AfterBalance(res, balance) ==
    IF balance # None THEN Log([res EXCEPT !.balance = balance], "balance", balance)
    ELSE Log(res, "balance failed", <<>>)

\* variant of AfterTransactions: success only with records
AfterTransactions_NeedsRecords(res, txs) ==
    LET r1 == [res EXCEPT !.transactions = txs]
        r2 == IF txs # <<>> THEN Log(r1, "transactions", Len(txs))
              ELSE Log(r1, "no transactions", <<>>)
    IN  [r2 EXCEPT !.success = (txs # <<>>), !.message = "read ok"]

\* read_card_info after read_transactions, to the end of the try block
AfterTransactions(res, txs) ==
    LET r1 == [res EXCEPT !.transactions = txs]
        r2 == IF txs # <<>> THEN Log(r1, "transactions", Len(txs))
              ELSE Log(r1, "no transactions", <<>>)
    IN  [r2 EXCEPT !.success = TRUE, !.message = "read ok"]

\* variant of AfterBalanceAgain: read_card_number is called whatever the
\* second read_balance returned
AfterBalanceAgain_Unconditional(res, balance) ==
    IF balance # None
    THEN [result |-> Log([res EXCEPT !.balance = balance], "balance", balance),
          card_number |-> TRUE]
    ELSE [result |-> res, card_number |-> TRUE]

\* read_card_info after the second read_balance: the result, and whether
\* read_card_number is called
AfterBalanceAgain(res, balance) ==
    IF balance # None
    THEN [result |-> Log([res EXCEPT !.balance = balance], "balance", balance),
          card_number |-> TRUE]
    ELSE [result |-> res, card_number |-> FALSE]

\* read_card_info after read_card_number
AfterCardNumber(res, card_info) ==
    IF card_info # None
    THEN Log(Log(Log([res EXCEPT !.card_info = card_info],
                     "card number", card_info[1].card_number),
                 "start date", card_info[1].start_date),
             "valid date", card_info[1].valid_date)
    ELSE Log(res, "card number failed", <<>>)

\* variant of Finally: disconnect() at the end of the try block instead
Finally_NotOnException(c, exc) ==
    IF c = "unbound" \/ exc THEN [conn |-> c, calls |-> 0]
    ELSE [conn |-> IF c = "open" THEN "closed" ELSE c, calls |-> 1]

\* CardReaderApp.read_card, its finally clause: the connection afterwards
\* and the number of disconnect() calls made.  exc: the except clause ran.
\* With connection unbound the call is a NameError, which is swallowed.
Finally(c, exc) ==
    IF c = "unbound" THEN [conn |-> c, calls |-> 0]
    ELSE [conn |-> IF c = "open" THEN "closed" ELSE c, calls |-> 1]

\* ------------------------------- CardReader of public-transport-card.py
\* The second copy of the class, in the single-file program.  Each function
\* is given the card, a table from commands to answers, and yields its
\* value together with the commands it sent, in order.

\* SUPPORTED_AIDS of the single-file program
SUPPORTED_AIDS_Single ==
    << [aid |-> <<160, 0, 0, 6, 50, 1, 1, 5>>, name |-> "primary AID"],
       [aid |-> <<160, 0, 0, 6, 50, 1, 1, 6>>, name |-> "fallback AID"] >>

\* TRANSACTION_TYPES of the single-file program
TRANSACTION_TYPES_Single == [c \in {9, 2, 6, 5} |->
    CASE c = 9 -> "subway" [] c = 2 -> "top-up" [] c = 6 -> "bus" [] c = 5 -> "purchase"]

\* variant of DEFAULT_SFIS_Single: the candidates in ascending order
DEFAULT_SFIS_Single_Ascending == <<2, 3, 15, 18, 21, 24>>

\* default of possible_sfis in read_transactions of the single-file program
DEFAULT_SFIS_Single == <<24, 21, 18, 15, 3, 2>>

\* connection.transmit on a card: its answer to the command; a command the
\* card does not know is rejected
CardAnswer(card, apdu) ==
    IF apdu \in DOMAIN card THEN card[apdu] ELSE Answer(<<>>, SW_NOT_FOUND)

\* transmit_apdu of the single-file program
transmit_apdu_Single(card, apdu) ==
    LET r == CardAnswer(card, apdu)
    IN  [raised |-> r.fault, data |-> r.data, sw |-> r.sw]

\* the loop of select_application of the single-file program, from the
\* i-th profile on
RECURSIVE SelectFrom_Single(_, _)
SelectFrom_Single(card, i) ==
    IF i > Len(SUPPORTED_AIDS_Single)
    THEN [value |-> FALSE, selected_aid |-> None, sent |-> <<>>]
    ELSE LET aid_bytes == SUPPORTED_AIDS_Single[i].aid
             apdu == <<0, 164, 4, 0, Len(aid_bytes)>> \o aid_bytes
             t == transmit_apdu_Single(card, apdu)
         IN  IF ~t.raised /\ t.sw = <<144, 0>>
             THEN [value |-> TRUE, selected_aid |-> Some(SUPPORTED_AIDS_Single[i].name),
                   sent |-> <<apdu>>]
             ELSE LET rest == SelectFrom_Single(card, i + 1)
                  IN  [rest EXCEPT !.sent = <<apdu>> \o @]

\* select_application of the single-file program
select_application_Single(card) == SelectFrom_Single(card, 1)

\* read_balance of the single-file program: the balance in hundredths, or
\* None
read_balance_Single(card) ==
    LET apdu == <<128, 92, 0, 2, 4>>
        t == transmit_apdu_Single(card, apdu)
    IN  [value |-> IF t.raised THEN None
                   ELSE IF t.sw # <<144, 0>> THEN None
                   ELSE IF Len(t.data) < 4 THEN None
                   ELSE Some(FromBytesBig(Slice(t.data, 0, 4))),
         sent |-> <<apdu>>]

\* parse_transaction_record of the single-file program: a record, or None
parse_transaction_record_Single(record_hex) ==
    LET b == BytesFromHex(RemoveSpaces(record_hex))
    IN  IF b = None THEN None
        ELSE LET data == b[1] IN
        IF Len(data) < 23 THEN None
        ELSE LET date_str == HexUpper(Slice(data, 16, 20))
                 time_str == HexUpper(Slice(data, 20, 23))
                 t == StrptimeYmdHMS(date_str \o time_str)
                 trans_type_code == data[9 + 1]
             IN  Some([
                   amount |-> FromBytesBig(Slice(data, 5, 9)),
                   datetime |-> IF t = None
                                THEN <<26410, 30693, 26085, 26399, 26102, 38388>>
                                ELSE FormatYmdHMS(t[1]),
                   transport_type |-> IF trans_type_code \in DOMAIN TRANSACTION_TYPES_Single
                                      THEN <<TRANSACTION_TYPES_Single[trans_type_code]>>
                                      ELSE <<"unknown", HexUpper(<<trans_type_code>>)>>,
                   station_gate_info |-> HexUpper(Slice(data, 10, 16)),
                   raw |-> record_hex ])

\* the slot loop of read_transactions of the single-file program, from
\* slot record_num on: the records appended and the commands sent
RECURSIVE ReadSlots_Single(_, _, _, _)
ReadSlots_Single(card, sfi, record_num, max) ==
    IF record_num > max THEN [txs |-> <<>>, sent |-> <<>>]
    ELSE LET apdu == <<0, 178, record_num, (sfi * 8) + 4, 0>>
             t == transmit_apdu_Single(card, apdu)
         IN  IF t.raised THEN [txs |-> <<>>, sent |-> <<apdu>>]
             ELSE IF t.sw = <<144, 0>> /\ t.data # <<>>
                     /\ (\E i \in 1..Len(t.data) : t.data[i] # 0)
             THEN LET parsed_tx == parse_transaction_record_Single(toHexString(t.data))
                      rest == ReadSlots_Single(card, sfi, record_num + 1, max)
                  IN  [txs |-> (IF parsed_tx # None THEN parsed_tx ELSE <<>>) \o rest.txs,
                       sent |-> <<apdu>> \o rest.sent]
             ELSE [txs |-> <<>>, sent |-> <<apdu>>]

\* the location loop of read_transactions of the single-file program, from
\* the k-th candidate on
RECURSIVE ReadSfis_Single(_, _, _)
ReadSfis_Single(card, k, max) ==
    IF k > Len(DEFAULT_SFIS_Single) THEN [txs |-> <<>>, sent |-> <<>>]
    ELSE LET here == ReadSlots_Single(card, DEFAULT_SFIS_Single[k], 1, max)
         IN  IF here.txs # <<>> THEN here
             ELSE LET rest == ReadSfis_Single(card, k + 1, max)
                  IN  [rest EXCEPT !.sent = here.sent \o @]

\* the order of the sort of the single-file program: by the datetime
\* string, reverse=True
Precedes_Single(x, y) == StrLess(y.datetime, x.datetime)

RECURSIVE InsertDesc_Single(_, _)
InsertDesc_Single(sorted, x) ==
    IF sorted = <<>> THEN <<x>>
    ELSE IF Precedes_Single(x, Head(sorted))
         THEN <<x>> \o sorted
         ELSE <<Head(sorted)>> \o InsertDesc_Single(Tail(sorted), x)

RECURSIVE SortDesc_Single(_)
SortDesc_Single(txs) ==
    IF txs = <<>> THEN <<>>
    ELSE InsertDesc_Single(SortDesc_Single(SubSeq(txs, 1, Len(txs) - 1)), Last(txs))

\* read_transactions of the single-file program
read_transactions_Single(card, max) ==
    LET r == ReadSfis_Single(card, 1, max)
    IN  [value |-> SortDesc_Single(r.txs), sent |-> r.sent]

\* read_card_info of the single-file program, read_transactions scaled to
\* max slots: the result and the commands sent
read_card_info_Single(card, max) ==
    LET result0 == [success |-> FALSE, message |-> "", balance |-> None,
                    transactions |-> <<>>, logs |-> <<>>]
        s == select_application_Single(card)
        b == read_balance_Single(card)
        t == read_transactions_Single(card, max)
        r1 == Log(result0, "card ok", s.selected_aid)
        r2 == IF b.value # None
              THEN Log([r1 EXCEPT !.balance = b.value], "balance", b.value)
              ELSE Log(r1, "balance failed", <<>>)
        r3 == [r2 EXCEPT !.transactions = t.value]
        r4 == IF t.value # <<>> THEN Log(r3, "transactions", Len(t.value))
              ELSE Log(r3, "no transactions", <<>>)
    IN  IF ~s.value
        THEN [result |-> [result0 EXCEPT !.message = "unknown card"], sent |-> s.sent]
        ELSE [result |-> [r4 EXCEPT !.success = TRUE, !.message = "read ok"],
              sent |-> s.sent \o b.sent \o t.sent]

\* ------------------------------------------------------------------ state
VARIABLES
    entry,            \* what was called: "read_card" (the session),
                      \* "read_transactions" (on its own) or "call" (one
                      \* of the other functions on its own)
    pc,               \* where the run of read_card stands
    read_btn,         \* state of the "read card" button
    conn,             \* the connection: "unbound", "created", "open", "closed"
    disconnects,      \* number of disconnect() calls made on the connection
    ui_exc,           \* the except clause of read_card ran
    selected_aid,     \* CardReader.selected_aid: <<label>> or None
    aidIdx,           \* position of select_application in SUPPORTED_AIDS
    selected,         \* what select_application returned: "pending", "yes", "no"
    max_records,      \* parameter of read_transactions
    sfiIdx,           \* position of read_transactions in possible_sfis
    record_num,       \* slot that read_transactions queries next
    sfi_transactions, \* records decoded at the current location
    transactions,     \* records of read_transactions
    result,           \* the result dictionary of read_card_info
    returned,         \* read_card_info returned result to read_card
    escaped,          \* an exception left read_card_info
    resp,             \* the transport's answer to the last command
    trace,            \* history: the commands transmitted, each with the
                      \* state the connection was in
    sel_outcomes,     \* history: the outcome of each select attempt
    arg,              \* a function called on its own: its argument
    ret               \* a function called on its own: what it returned

vars == <<entry, pc, read_btn, conn, disconnects, ui_exc, selected_aid, aidIdx, selected,
          max_records, sfiIdx, record_num, sfi_transactions, transactions, result, returned,
          escaped, resp, trace, sel_outcomes, pad_year, arg, ret>>

callVars == <<pad_year, arg, ret>>

uiVars == <<read_btn, conn, disconnects, ui_exc>>
selVars == <<selected_aid, aidIdx, selected, sel_outcomes>>
txVars == <<max_records, sfiIdx, record_num, sfi_transactions, transactions>>

Init ==
    /\ entry = "read_card"
    /\ pc = "idle"
    /\ read_btn = "normal"
    /\ conn = "unbound"
    /\ disconnects = 0
    /\ ui_exc = FALSE
    /\ selected_aid = None
    /\ aidIdx = 1
    /\ selected = "pending"
    /\ max_records = MaxRecords
    /\ sfiIdx = 1
    /\ record_num = 1
    /\ sfi_transactions = <<>>
    /\ transactions = <<>>
    /\ result = ResultInit
    /\ returned = FALSE
    /\ escaped = FALSE
    /\ resp = Answer(<<>>, <<0, 0>>)
    /\ trace = <<>>
    /\ sel_outcomes = <<>>
    /\ pad_year \in BOOLEAN
    /\ arg = <<>>
    /\ ret = <<>>

Transmit(apdu, r) ==
    /\ trace' = Append(trace, [apdu |-> apdu, conn |-> conn])
    /\ resp' = r

Outcome(r) == IF r.fault THEN "fault" ELSE IF r.sw = SW_OK THEN "9000" ELSE "rejected"

\* an exception reaches read_card: its except clause, then finally
Escape ==
    /\ escaped' = TRUE
    /\ ui_exc' = TRUE
    /\ pc' = "finally"

\* what connection.transmit answers to a command: in the runs on one card
\* (arg is the card, a table from commands to answers) the card's answer,
\* the same each time the command is sent; else any of the answers
Answers(apdu, any) ==
    IF entry = "read_card_info on one card" THEN {CardAnswer(arg, apdu)} ELSE any

\* ---------------------------------------------------------------- actions
\* read_card up to its try block: the reader chosen in the combo box
ReadCard ==
    /\ pc = "idle"
    /\ \E reader \in {"none selected", "not in list", "found"} :
          IF reader = "found"
          THEN pc' = "connect" /\ read_btn' = "disabled"
          ELSE pc' = "done" /\ read_btn' = read_btn
    /\ UNCHANGED <<entry, callVars, conn, disconnects, ui_exc, selVars, txVars, result, returned,
                   escaped, resp, trace>>

\* createConnection(), connect(), CardReader(connection) and the start of
\* read_card_info
Connect ==
    /\ pc = "connect"
    /\ \E o \in {"createConnection raises", "connect raises", "connected"} :
          /\ conn' = CASE o = "createConnection raises" -> "unbound"
                       [] o = "connect raises" -> "created"
                       [] OTHER -> "open"
          /\ ui_exc' = (o # "connected")
          /\ pc' = IF o = "connected" THEN "select" ELSE "finally"
    /\ UNCHANGED <<entry, callVars, read_btn, disconnects, selVars, txVars, result, returned,
                   escaped, resp, trace>>

\* select_application, one profile, and read_card_info up to the next command
Select ==
    /\ pc = "select"
    /\ \E r \in Answers(SelectApdu(SUPPORTED_AIDS[aidIdx].aid), SelectAnswers) :
        LET profile == SUPPORTED_AIDS[aidIdx]
            o == SelectTry(r)
            next == IF o = "accepted" THEN AfterSelect(TRUE)
                    ELSE IF o = "next" /\ aidIdx = Len(SUPPORTED_AIDS) THEN AfterSelect(FALSE)
                    ELSE IF o = "next" THEN "loop"
                    ELSE "raised"
        IN  /\ Transmit(SelectApdu(profile.aid), r)
            /\ sel_outcomes' = Append(sel_outcomes, Outcome(r))
            /\ selected_aid' = IF o = "accepted" THEN Some(profile.name) ELSE selected_aid
            /\ selected' = IF o = "accepted" THEN "yes"
                           ELSE IF next \in {"loop", "raised"} THEN selected ELSE "no"
            /\ aidIdx' = IF next = "loop" THEN aidIdx + 1 ELSE aidIdx
            /\ CASE next = "balance" ->
                      /\ result' = Log(result, "card ok", selected_aid')
                      /\ pc' = "balance"
                      /\ returned' = returned
                 [] next = "return" ->
                      /\ result' = [result EXCEPT !.message = "unknown card"]
                      /\ pc' = "display"
                      /\ returned' = TRUE
                 [] next = "loop" ->
                      /\ UNCHANGED <<result, pc, returned>>
                 [] OTHER ->
                      /\ result' = OnException(result)
                      /\ pc' = "balance again"
                      /\ returned' = returned
    /\ UNCHANGED <<entry, callVars, uiVars, txVars, escaped>>

\* the first read_balance and read_card_info up to the next command
Balance ==
    /\ pc = "balance"
    /\ \E r \in Answers(BALANCE_APDU, BalanceAnswers) :
        LET b == read_balance(r)
        IN  /\ Transmit(BALANCE_APDU, r)
            /\ IF b.raised
               THEN /\ result' = OnException(result)
                    /\ pc' = "balance again"
                    /\ UNCHANGED txVars
               ELSE /\ result' = AfterBalance(result, b.value)
                    /\ pc' = "transactions"
                    /\ max_records' = max_records
                    /\ sfiIdx' = 1
                    /\ record_num' = 1
                    /\ sfi_transactions' = <<>>
                    /\ transactions' = <<>>
    /\ UNCHANGED <<entry, callVars, uiVars, selVars, returned, escaped>>

\* the answers a card gives to a read-record command; the runs with the
\* program's own maxima are followed for a card that has a record in the
\* slot, has none, or fails
LongRunAnswers == {Answer(REC_A, SW_OK), Answer(<<>>, SW_NOT_FOUND), Fault}
\* in the session with the default maximum the card answers every slot
\* with a record the parser rejects, so that every slot of every location
\* is queried: the runs with the most commands
FullSlotAnswers == {Answer(REC_SHORT, SW_OK)}
\* records for the order of the returned list: one of the date and time of
\* REC_A with another amount and type, one whose month is 13
REC_A_TOPUP == <<0, 0, 0, 0, 3,  0, 0, 19, 136,  2,  1, 2, 3, 4, 5, 8,  32, 36, 1, 1,  16, 0, 0>>
REC_UNDATED == <<0, 0, 0, 0, 4,  0, 0, 0, 200,  6,  1, 2, 3, 4, 5, 9,  32, 36, 19, 1,  16, 0, 0>>
OrderAnswers == {Answer(REC_A, SW_OK), Answer(REC_A_TOPUP, SW_OK), Answer(REC_B, SW_OK),
                 Answer(REC_UNDATED, SW_OK), Answer(<<>>, SW_NOT_FOUND)}
SlotAnswers == IF entry = "read_transactions(max_records)" THEN LongRunAnswers
               ELSE IF entry = "read_transactions, dated and undated records"
                    THEN OrderAnswers
               ELSE IF entry = "read_card, default max_records" THEN FullSlotAnswers
               ELSE RecordAnswers

\* variant of LastSlot: one slot beyond range(1, max_records + 1)
LastSlot_OneMore(n, max) == n = max + 1

\* for record_num in range(1, max_records + 1): n is the last slot
LastSlot(n, max) == n = max

\* read_transactions, one slot, and what follows it up to the next command:
\* the end of the slot loop, of the location loop, the sort and the return
Slot ==
    /\ pc = "transactions"
    /\ \E r \in Answers(RecordApdu(record_num, DEFAULT_SFIS[sfiIdx]), SlotAnswers) :
       \E o \in {ReadSlot(r)} :
        \E txs \in {IF o.tx # None THEN Append(sfi_transactions, o.tx[1])
                    ELSE sfi_transactions} :
        LET sfi == DEFAULT_SFIS[sfiIdx]
            slotsDone == ~o.more \/ LastSlot(record_num, max_records)
            all == IF txs # <<>> THEN transactions \o txs ELSE transactions
            sfisDone == StopAtSfi(txs) \/ sfiIdx = Len(DEFAULT_SFIS)
        IN  /\ Transmit(RecordApdu(record_num, sfi), r)
            /\ IF ~slotsDone
               THEN /\ record_num' = record_num + 1
                    /\ sfi_transactions' = txs
                    /\ UNCHANGED <<sfiIdx, transactions, pc>>
               ELSE IF ~sfisDone
               THEN /\ sfiIdx' = sfiIdx + 1
                    /\ record_num' = 1
                    /\ sfi_transactions' = <<>>
                    /\ transactions' = all
                    /\ pc' = pc
               ELSE /\ sfi_transactions' = txs
                    /\ transactions' = SortDesc(all)
                    /\ pc' = "transactions read"
                    /\ UNCHANGED <<sfiIdx, record_num>>
    /\ UNCHANGED <<entry, callVars, uiVars, selVars, max_records, result, returned, escaped>>

\* read_card_info takes the list of read_transactions, to the end of its
\* try block
Transactions ==
    /\ pc = "transactions read"
    /\ entry \in {"read_card", "read_card, default max_records",
                 "read_card_info on one card"}
    /\ result' = AfterTransactions(result, transactions)
    /\ pc' = "balance again"
    /\ UNCHANGED <<entry, callVars, uiVars, selVars, txVars, returned, escaped, resp, trace>>

\* the second read_balance, after the try block of read_card_info
BalanceAgain ==
    /\ pc = "balance again"
    /\ \E r \in Answers(BALANCE_APDU, BalanceAnswers) :
        LET b == read_balance(r)
            a == AfterBalanceAgain(result, b.value)
        IN  /\ Transmit(BALANCE_APDU, r)
            /\ IF b.raised
               THEN Escape /\ UNCHANGED <<result, returned>>
               ELSE /\ result' = a.result
                    /\ pc' = IF a.card_number THEN "card number" ELSE "display"
                    /\ returned' = ~a.card_number
                    /\ UNCHANGED <<escaped, ui_exc>>
    /\ UNCHANGED <<entry, callVars, read_btn, conn, disconnects, selVars, txVars>>

\* read_card_number and the return of read_card_info
CardNumber ==
    /\ pc = "card number"
    /\ \E r \in Answers(CARD_NUMBER_APDU, CardNumberAnswers) :
        LET c == read_card_number(r)
        IN  /\ Transmit(CARD_NUMBER_APDU, r)
            /\ IF c.raised
               THEN Escape /\ UNCHANGED <<result, returned>>
               ELSE /\ result' = AfterCardNumber(result, c.value)
                    /\ pc' = "display"
                    /\ returned' = TRUE
                    /\ UNCHANGED <<escaped, ui_exc>>
    /\ UNCHANGED <<entry, callVars, read_btn, conn, disconnects, selVars, txVars>>

\* read_card shows the result; a call into the toolkit may raise
Display ==
    /\ pc = "display"
    /\ \E raises \in BOOLEAN : ui_exc' = raises
    /\ pc' = "finally"
    /\ UNCHANGED <<entry, callVars, read_btn, conn, disconnects, selVars, txVars, result, returned,
                   escaped, resp, trace>>

\* the finally clause of read_card (the button call is the one that went
\* through before the try block)
Disconnect ==
    /\ pc = "finally"
    /\ read_btn' = "normal"
    /\ conn' = Finally(conn, ui_exc).conn
    /\ disconnects' = disconnects + Finally(conn, ui_exc).calls
    /\ pc' = "done"
    /\ UNCHANGED <<entry, callVars, ui_exc, selVars, txVars, result, returned, escaped, resp, trace>>

Next ==
    \/ ReadCard
    \/ Connect
    \/ Select
    \/ Balance
    \/ Slot
    \/ Transactions
    \/ BalanceAgain
    \/ CardNumber
    \/ Display
    \/ Disconnect

Spec == Init /\ [][Next]_vars

\* the session on any card with max_records = MaxRecords, and the session
\* with the default max_records of read_transactions on a card that
\* answers every slot; every step is taken once the transport has returned
\* or raised
InitFull ==
    /\ entry \in {"read_card", "read_card, default max_records"}
    /\ pc = "idle"
    /\ read_btn = "normal"
    /\ conn = "unbound"
    /\ disconnects = 0
    /\ ui_exc = FALSE
    /\ selected_aid = None
    /\ aidIdx = 1
    /\ selected = "pending"
    /\ max_records = IF entry = "read_card" THEN MaxRecords ELSE DEFAULT_MAX_RECORDS
    /\ sfiIdx = 1
    /\ record_num = 1
    /\ sfi_transactions = <<>>
    /\ transactions = <<>>
    /\ result = ResultInit
    /\ returned = FALSE
    /\ escaped = FALSE
    /\ resp = Answer(<<>>, <<0, 0>>)
    /\ trace = <<>>
    /\ sel_outcomes = <<>>
    /\ pad_year \in BOOLEAN
    /\ arg = <<>>
    /\ ret = <<>>

SpecFull == InitFull /\ [][Next]_vars /\ WF_vars(Next)

\* read_transactions called on its own, on an open connection, with the
\* default locations and a max_records of 1..MaxSlots
InitLedger ==
    /\ entry = "read_transactions"
    /\ pc = "transactions"
    /\ read_btn = "disabled"
    /\ conn = "open"
    /\ disconnects = 0
    /\ ui_exc = FALSE
    /\ selected_aid = Some(SUPPORTED_AIDS[1].name)
    /\ aidIdx = 1
    /\ selected = "yes"
    /\ max_records \in 1..MaxSlots
    /\ sfiIdx = 1
    /\ record_num = 1
    /\ sfi_transactions = <<>>
    /\ transactions = <<>>
    /\ result = ResultInit
    /\ returned = FALSE
    /\ escaped = FALSE
    /\ resp = Answer(<<>>, <<0, 0>>)
    /\ trace = <<>>
    /\ sel_outcomes = <<>>
    /\ pad_year \in BOOLEAN
    /\ arg = <<>>
    /\ ret = <<>>

NextLedger == Slot

SpecLedger == InitLedger /\ [][NextLedger]_vars

\* read_transactions called on its own with the program's maxima: no
\* max_records supplied (arg is None, the default applies) or a supplied
\* max_records up to the one of DEFAULT_CONFIG
InitSlots ==
    /\ entry = "read_transactions(max_records)"
    /\ pc = "transactions"
    /\ read_btn = "disabled"
    /\ conn = "open"
    /\ disconnects = 0
    /\ ui_exc = FALSE
    /\ selected_aid = Some(SUPPORTED_AIDS[1].name)
    /\ aidIdx = 1
    /\ selected = "yes"
    /\ arg \in {None} \cup {Some(n) : n \in 1..CONFIG_MAX_RECORDS}
    /\ max_records = IF arg = None THEN DEFAULT_MAX_RECORDS ELSE arg[1]
    /\ sfiIdx = 1
    /\ record_num = 1
    /\ sfi_transactions = <<>>
    /\ transactions = <<>>
    /\ result = ResultInit
    /\ returned = FALSE
    /\ escaped = FALSE
    /\ resp = Answer(<<>>, <<0, 0>>)
    /\ trace = <<>>
    /\ sel_outcomes = <<>>
    /\ pad_year \in BOOLEAN
    /\ ret = <<>>

\* the cards of the runs on one card: the answers to the two selections,
\* to the balance query and to the identity read, the location that holds
\* the ledger with the answers of its slots, and the answer of every slot
\* elsewhere
CardCommands ==
    {SelectApdu(AID_PRIMARY), SelectApdu(AID_FALLBACK), BALANCE_APDU, CARD_NUMBER_APDU}
        \cup {RecordApdu(n, DEFAULT_SFIS[k]) : n \in 1..MaxRecords, k \in 1..Len(DEFAULT_SFIS)}
CardWith(s1, s2, b, home, recs, other, id) ==
    [c \in CardCommands |->
        IF c = SelectApdu(AID_PRIMARY) THEN s1
        ELSE IF c = SelectApdu(AID_FALLBACK) THEN s2
        ELSE IF c = BALANCE_APDU THEN b
        ELSE IF c = CARD_NUMBER_APDU THEN id
        ELSE IF ApduSfi(c) = home THEN recs[ApduSlot(c)]
        ELSE other]
CardBalances == {Answer(<<0, 0, 39, 16>>, SW_OK), Answer(<<0, 1>>, SW_OK), Fault}
CardHomes == {24, 18, 2}
CardSlots == {Answer(REC_A, SW_OK), Answer(REC_B, SW_OK), Answer(REC_SHORT, SW_OK),
              Answer(<<>>, SW_NOT_FOUND), Fault}
CardElsewhere == {Answer(<<>>, SW_NOT_FOUND), Fault}
CardIdentities == {Answer(ID_OK, SW_OK), Answer(ID_BAD_DATE, SW_OK), Fault}
Cards ==
    {CardWith(s1, s2, b, home, recs, other, id) :
        s1 \in SelectAnswers, s2 \in SelectAnswers, b \in CardBalances,
        home \in CardHomes, recs \in [1..MaxRecords -> CardSlots],
        other \in CardElsewhere, id \in CardIdentities}

\* read_card_info called on one card, read_transactions scaled to
\* MaxRecords slots
InitCard ==
    /\ entry = "read_card_info on one card"
    /\ pc = "select"
    /\ read_btn = "disabled"
    /\ conn = "open"
    /\ disconnects = 0
    /\ ui_exc = FALSE
    /\ selected_aid = None
    /\ aidIdx = 1
    /\ selected = "pending"
    /\ max_records = MaxRecords
    /\ sfiIdx = 1
    /\ record_num = 1
    /\ sfi_transactions = <<>>
    /\ transactions = <<>>
    /\ result = ResultInit
    /\ returned = FALSE
    /\ escaped = FALSE
    /\ resp = Answer(<<>>, <<0, 0>>)
    /\ trace = <<>>
    /\ sel_outcomes = <<>>
    /\ pad_year \in BOOLEAN
    /\ arg \in Cards
    /\ ret = <<>>

NextCard ==
    \/ Select
    \/ Balance
    \/ Slot
    \/ Transactions
    \/ BalanceAgain
    \/ CardNumber

SpecCard == InitCard /\ [][NextCard]_vars

\* read_transactions called on its own, on a card whose records have
\* equal, different and invalid dates
InitOrder ==
    /\ entry = "read_transactions, dated and undated records"
    /\ pc = "transactions"
    /\ read_btn = "disabled"
    /\ conn = "open"
    /\ disconnects = 0
    /\ ui_exc = FALSE
    /\ selected_aid = Some(SUPPORTED_AIDS[1].name)
    /\ aidIdx = 1
    /\ selected = "yes"
    /\ max_records \in 1..(MaxSlots + 1)
    /\ sfiIdx = 1
    /\ record_num = 1
    /\ sfi_transactions = <<>>
    /\ transactions = <<>>
    /\ result = ResultInit
    /\ returned = FALSE
    /\ escaped = FALSE
    /\ resp = Answer(<<>>, <<0, 0>>)
    /\ trace = <<>>
    /\ sel_outcomes = <<>>
    /\ pad_year \in BOOLEAN
    /\ arg = <<>>
    /\ ret = <<>>

NextOrder == Slot

SpecOrder == InitOrder /\ [][NextOrder]_vars

NextSlots == Slot

SpecSlots == InitSlots /\ [][NextSlots]_vars

\* ------------------------------------------- the functions on their own
\* the finite sequences over S of length up to n
SeqsUpTo(S, n) == UNION {[1..k -> S] : k \in 0..n}

\* str.lower() of a hex string
Lower(s) == [i \in 1..Len(s) |-> IF s[i] >= 65 /\ s[i] <= 90 THEN s[i] + 32 ELSE s[i]]

\* answers to the stored-value query: data of up to MaxData bytes
BalanceBytes == {0, 16, 39, 127}
BalanceCallAnswers ==
    {Answer(d, sw) : d \in SeqsUpTo(BalanceBytes, MaxData), sw \in {SW_OK, SW_NOT_FOUND}}
        \cup {Fault}

\* fields of a record, as the card stores them (one BCD pair per byte)
YearSamples == {<<32, 36>>, <<9, 153>>, <<0, 0>>, <<42, 36>>}
MonthSamples == {1, 2, 18, 19}
DaySamples == {1, 41, 48, 49, 50}
HourSamples == {0, 35, 36}
MinuteSamples == {0, 89, 96}
SecondSamples == {0, 89, 96}
TypeSamples == {9, 7}

\* a record of 23 bytes and more: amount at [5,9), type at 9, station at
\* [10,16), date at [16,20), time at [20,23)
RecordOf(type, date, time, extra) ==
    <<1, 0, 0, 0, 0,  0, 0, 1, 244,  type,  17, 34, 51, 68, 85, 102>>
        \o date \o time \o [i \in 1..extra |-> 170]

\* the hex text of data: as toHexString gives it, without spaces, or in
\* lower case
Render(style, data) ==
    IF style = "spaced" THEN toHexString(data)
    ELSE IF style = "compact" THEN HexUpper(data)
    ELSE Lower(HexUpper(data))

\* a text that is cut, or has one character replaced: G, x or a tab
BROKEN_TEXT == toHexString(RecordOf(9, <<32, 36, 1, 1>>, <<16, 0, 0>>, MaxExtra))
BadChars == {71, 120, 9}

\* answers to the identity read: 10 bytes, the card number at bytes
\* [10,20), the issue date at [20,24), the expiry date at [24,28)
IssueSamples == {<<32, 35, 1, 21>>, <<9, 153, 1, 21>>, <<32, 35, 19, 1>>, <<32, 35, 17, 5>>}
ExpirySamples == {<<32, 51, 1, 21>>, <<9, 153, 1, 21>>, <<0, 0, 1, 1>>, <<32, 51, 2, 48>>,
                  <<42, 51, 1, 21>>, <<32, 51, 17, 5>>}
IdentityOf(issue, expiry, extra) ==
    <<0, 0, 0, 0, 0, 0, 0, 0, 0, 0,  49, 0, 0, 18, 52, 86, 120, 144, 171, 205>>
        \o issue \o expiry \o [i \in 1..extra |-> 170]
CardNumberCallAnswers ==
    {Answer(SubSeq(IdentityOf(i, e, MaxExtra), 1, n), sw) :
        i \in IssueSamples, e \in ExpirySamples, n \in 0..(28 + MaxExtra),
        sw \in {SW_OK, SW_NOT_FOUND}}
        \cup {Fault}

\* a CardReader on an open connection, before the call
InitCalls ==
    /\ entry = "call"
    /\ pc = "call"
    /\ read_btn = "disabled"
    /\ conn = "open"
    /\ disconnects = 0
    /\ ui_exc = FALSE
    /\ selected_aid = None
    /\ aidIdx = 1
    /\ selected = "pending"
    /\ max_records = MaxRecords
    /\ sfiIdx = 1
    /\ record_num = 1
    /\ sfi_transactions = <<>>
    /\ transactions = <<>>
    /\ result = ResultInit
    /\ returned = FALSE
    /\ escaped = FALSE
    /\ resp = Answer(<<>>, <<0, 0>>)
    /\ trace = <<>>
    /\ sel_outcomes = <<>>
    /\ pad_year \in BOOLEAN
    /\ arg = <<>>
    /\ ret = <<>>

\* what a call leaves alone
calleeVars == <<entry, pad_year, uiVars, selVars, txVars, result, returned, escaped>>

\* read_balance(): the command it sends, the answer, what it returns
CallReadBalance ==
    /\ entry = "call"
    /\ pc = "call"
    /\ \E r \in BalanceCallAnswers :
          /\ trace' = <<[apdu |-> BALANCE_APDU, conn |-> conn]>>
          /\ resp' = r
          /\ ret' = read_balance(r)
    /\ arg' = <<>>
    /\ pc' = "read_balance"
    /\ UNCHANGED calleeVars

\* parse_transaction_record(record_hex) on the text of a record of 23
\* bytes or more
CallParse ==
    /\ entry = "call"
    /\ pc = "call"
    /\ \E ty \in TypeSamples, y \in YearSamples, m \in MonthSamples, d \in DaySamples,
          h \in HourSamples, mi \in MinuteSamples, sec \in SecondSamples,
          extra \in 0..MaxExtra, style \in {"spaced", "lower"} :
          LET record_hex == Render(style, RecordOf(ty, y \o <<m, d>>, <<h, mi, sec>>, extra))
          IN  /\ arg' = record_hex
              /\ ret' = parse_transaction_record(record_hex)
    /\ pc' = "parse_transaction_record"
    /\ UNCHANGED <<calleeVars, resp, trace>>

\* parse_transaction_record(record_hex) on a text that is cut short or has
\* a character that is no hex digit
CallParseBroken ==
    /\ entry = "call"
    /\ pc = "call"
    /\ \E k \in 0..Len(BROKEN_TEXT), c \in BadChars \cup {0} :
          LET record_hex == IF c = 0 THEN SubSeq(BROKEN_TEXT, 1, k)
                            ELSE IF k = 0 THEN <<c>>
                            ELSE [BROKEN_TEXT EXCEPT ![k] = c]
          IN  /\ arg' = record_hex
              /\ ret' = parse_transaction_record(record_hex)
    /\ pc' = "parse_transaction_record"
    /\ UNCHANGED <<calleeVars, resp, trace>>

\* read_card_number(): the command it sends, the answer, what it returns
CallReadCardNumber ==
    /\ entry = "call"
    /\ pc = "call"
    /\ \E r \in CardNumberCallAnswers :
          /\ trace' = <<[apdu |-> CARD_NUMBER_APDU, conn |-> conn]>>
          /\ resp' = r
          /\ ret' = read_card_number(r)
    /\ arg' = <<>>
    /\ pc' = "read_card_number"
    /\ UNCHANGED calleeVars

\* fields of a record other than its date and time
AmountHigh == {0, 1, 127}
AmountBytes == {0, 1, 127, 244}
TypeCodes == {9, 2, 6, 5, 0, 7, 171, 255}
StationSamples == {<<17, 34, 51, 68, 85, 102>>, <<171, 205, 239, 0, 1, 255>>}

\* a record of 23 bytes with the given amount, type and station
RecordWith(amount, type, station) ==
    <<1, 0, 0, 0, 0>> \o amount \o <<type>> \o station \o <<32, 36, 1, 1,  16, 0, 0>>

\* parse_transaction_record(record_hex) on records that differ in amount,
\* type and station
CallParseFields ==
    /\ entry = "call"
    /\ pc = "call"
    /\ \E high \in AmountHigh, low \in [1..3 -> AmountBytes], ty \in TypeCodes,
          st \in StationSamples, style \in {"spaced", "compact"} :
          LET record_hex == Render(style, RecordWith(<<high>> \o low, ty, st))
          IN  /\ arg' = record_hex
              /\ ret' = parse_transaction_record(record_hex)
    /\ pc' = "parse_transaction_record"
    /\ UNCHANGED <<calleeVars, resp, trace>>

NextCalls ==
    \/ CallReadBalance
    \/ CallParseBroken
    \/ CallParseFields
    \/ CallReadCardNumber
    \/ CallParse

SpecCalls == InitCalls /\ [][NextCalls]_vars

TypeOK ==
    /\ pc \in {"idle", "connect", "select", "balance", "transactions", "transactions read",
               "balance again",
               "card number", "display", "finally", "done",
               "call", "read_balance", "parse_transaction_record", "read_card_number"}
    /\ conn \in {"unbound", "created", "open", "closed"}
    /\ aidIdx \in 1..Len(SUPPORTED_AIDS)
    /\ sfiIdx \in 1..Len(DEFAULT_SFIS)
    /\ record_num \in 1..max_records
    /\ Len(sfi_transactions) <= max_records

\* ================================================================= claims
Sent(apdu) == \E i \in 1..Len(trace) : trace[i].apdu = apdu
Count(apdu) == Cardinality({i \in 1..Len(trace) : trace[i].apdu = apdu})
NoneAccepted == \A i \in 1..Len(sel_outcomes) : sel_outcomes[i] # "9000"

\* C1: when no select command of the two profiles is answered 0x9000
\* (rejected or transport fault), read_card_info returns a result with
\* success = false and the transport has seen select commands only.
C1_FailedSelectionEndsRun ==
    (Len(sel_outcomes) = Len(SUPPORTED_AIDS) /\ NoneAccepted)
        => /\ returned
           /\ ~result.success
           /\ \A i \in 1..Len(trace) : IsSelectApdu(trace[i].apdu)

C1_Witness ==
    /\ sel_outcomes = <<"rejected", "fault">>
    /\ pc = "done"
    /\ returned
    /\ Len(trace) = 2

\* C2 (as claimed): once selection has succeeded, a returned run has sent
\* the identity read 00 B0 95 00 00, whatever the balance query answered.
C2_IdentityAlwaysAttempted ==
    (selected = "yes" /\ returned) => Sent(CARD_NUMBER_APDU)

\* C3 (as claimed): in a returned run with successful selection the
\* stored-value query is sent once, before every read-record command, and
\* the identity read is sent once, as the last command of the run.
C3_StagesOnceInOrder ==
    (selected = "yes" /\ returned)
        => /\ Count(BALANCE_APDU) = 1
           /\ \A i, j \in 1..Len(trace) :
                 (trace[i].apdu = BALANCE_APDU /\ IsRecordApdu(trace[j].apdu)) => i < j
           /\ Count(CARD_NUMBER_APDU) = 1
           /\ Last(trace).apdu = CARD_NUMBER_APDU

\* C4: the success flag of a returned result is true exactly when
\* select_application succeeded, whatever the later stages did.
C4_SuccessIffSelected ==
    returned => (result.success <=> selected = "yes")

C4_Witness ==
    /\ returned
    /\ result.success
    /\ result.balance = None
    /\ result.transactions = <<>>
    /\ result.card_info = None

\* C5: no exception leaves read_card_info, and once read_card is past the
\* call on an opened connection, read_card_info has returned its result.
C5_NoFaultReachesCaller ==
    /\ ~escaped
    /\ (pc \in {"display", "finally", "done"} /\ trace # <<>>) => returned

C5_Witness ==
    /\ returned
    /\ sel_outcomes = <<"fault", "9000">>
    /\ resp.fault
    /\ Last(trace).apdu = CARD_NUMBER_APDU

\* C6: commands are transmitted on an open connection only, disconnect() is
\* called at most once, and when read_card is over a connection that was
\* opened is closed, by exactly one disconnect() call.
C6_ConnectionReleased ==
    /\ \A i \in 1..Len(trace) : trace[i].conn = "open"
    /\ disconnects <= 1
    /\ pc = "done" => /\ conn # "open"
                      /\ conn = "closed" => disconnects = 1

C6_Witness ==
    /\ pc = "done"
    /\ conn = "closed"
    /\ ui_exc
    /\ returned
    /\ disconnects = 1

\* C7: the select commands are the first commands of the session, one per
\* profile in list order; an attempt answered 0x9000 is the last attempt;
\* selected_aid is the label of the accepted profile as long as the session
\* lasts, and is unset while no attempt was accepted.
C7_FirstAcceptedProfileWins ==
    /\ Len(sel_outcomes) <= Len(SUPPORTED_AIDS)
    /\ Len(sel_outcomes) <= Len(trace)
    /\ \A i \in 1..Len(trace) :
          IF i <= Len(sel_outcomes)
          THEN trace[i].apdu = SelectApdu(SUPPORTED_AIDS[i].aid)
          ELSE ~IsSelectApdu(trace[i].apdu)
    /\ \A i \in 1..Len(sel_outcomes) :
          sel_outcomes[i] = "9000" => i = Len(sel_outcomes)
    /\ selected_aid = IF NoneAccepted THEN None
                      ELSE Some(SUPPORTED_AIDS[Len(sel_outcomes)].name)

C7_Witness ==
    /\ sel_outcomes = <<"rejected", "9000">>
    /\ selected_aid = Some("fallback AID")
    /\ Sent(CARD_NUMBER_APDU)

\* C8: after a transport fault on the first profile the selector stands at
\* the second profile, the second select is the next command, and when it
\* is answered 0x9000 the selection has succeeded with the second profile.
C8_FaultIsNonMatch ==
    (sel_outcomes # <<>> /\ sel_outcomes[1] = "fault")
        => IF Len(sel_outcomes) = 1
           THEN pc = "select" /\ aidIdx = 2 /\ Len(trace) = 1
           ELSE /\ trace[2].apdu = SelectApdu(AID_FALLBACK)
                /\ sel_outcomes[2] = "9000"
                      => selected = "yes" /\ selected_aid = Some("fallback AID")

C8_Witness ==
    /\ sel_outcomes = <<"fault", "9000">>
    /\ selected = "yes"
    /\ pc = "balance"

\* an answer that says "no more records here": status other than 0x9000,
\* no data, or only zero bytes
EndsSlots(r) ==
    /\ ~r.fault
    /\ \/ r.sw # SW_OK
       \/ r.data = <<>>
       \/ \A i \in 1..Len(r.data) : r.data[i] = 0

\* C9: no read-record command is sent twice, and a read-record command for
\* slot n+1 of a location is sent only right after the command for slot n
\* of that location, and only if that one was not answered with a status
\* other than 0x9000, with no data or with zero bytes only.
C9_SlotLoopStops ==
    /\ [](\A i, j \in 1..Len(trace) : trace[i].apdu = trace[j].apdu => i = j)
    /\ [][\A k \in 1..Len(DEFAULT_SFIS) : \A n \in 1..MaxSlots :
            trace' = Append(trace, [apdu |-> RecordApdu(n + 1, DEFAULT_SFIS[k]), conn |-> conn])
                => /\ trace # <<>>
                   /\ Last(trace).apdu = RecordApdu(n, DEFAULT_SFIS[k])
                   /\ ~EndsSlots(resp)]_vars

C9_Witness ==
    /\ max_records = 2
    /\ resp = Answer(REC_ZERO, SW_OK)
    /\ Last(trace).apdu = RecordApdu(1, 24)
    /\ sfiIdx = 2
    /\ record_num = 1

\* C10: once a record has been decoded, every further read-record command
\* goes to the location of the command before it: none goes to a later
\* candidate location.
C10_NoLaterLocation ==
    [][((sfi_transactions # <<>> \/ transactions # <<>>)
           /\ Len(trace') = Len(trace) + 1
           /\ IsRecordApdu(Last(trace').apdu))
          => (/\ trace # <<>>
              /\ IsRecordApdu(Last(trace).apdu)
              /\ ApduSfi(Last(trace').apdu) = ApduSfi(Last(trace).apdu))]_vars

C10_Witness ==
    /\ pc = "transactions read"
    /\ transactions # <<>>
    /\ sfiIdx = 2
    /\ Len(transactions) = 2
    /\ ApduSfi(trace[1].apdu) = 24
    /\ ApduSfi(Last(trace).apdu) = 21

\* the number of records decoded so far by read_transactions
Decoded ==
    IF pc = "transactions" THEN Len(transactions) + Len(sfi_transactions)
    ELSE Len(transactions)

\* a successful, non-empty, not all-zero answer that the record parser
\* rejects for being shorter than 23 bytes
ParserRejects(r) ==
    /\ ~r.fault
    /\ r.sw = SW_OK
    /\ r.data # <<>>
    /\ \E i \in 1..Len(r.data) : r.data[i] # 0
    /\ Len(r.data) < 23

\* C11: a read-record answer that is successful, non-empty, not all zero
\* and shorter than 23 bytes adds no record, and when its slot was below
\* the maximum the next command is the read-record of the next slot of the
\* same location.
C11_RejectedSlotGoesOn ==
    /\ [][(Len(trace') = Len(trace) + 1 /\ ParserRejects(resp'))
            => Decoded' = Decoded]_vars
    /\ [][(Len(trace') = Len(trace) + 1 /\ trace # <<>> /\ ParserRejects(resp)
             /\ IsRecordApdu(Last(trace).apdu)
             /\ ApduSlot(Last(trace).apdu) < max_records)
            => Last(trace').apdu = RecordApdu(ApduSlot(Last(trace).apdu) + 1,
                                              ApduSfi(Last(trace).apdu))]_vars
    /\ []((trace # <<>> /\ ParserRejects(resp) /\ IsRecordApdu(Last(trace).apdu)
              /\ ApduSlot(Last(trace).apdu) < max_records)
            => /\ pc = "transactions"
               /\ record_num = ApduSlot(Last(trace).apdu) + 1
               /\ DEFAULT_SFIS[sfiIdx] = ApduSfi(Last(trace).apdu))

C11_Witness ==
    /\ pc = "transactions read"
    /\ Len(trace) = 2
    /\ trace[1].apdu = RecordApdu(1, 24)
    /\ Last(trace).apdu = RecordApdu(2, 24)
    /\ Len(transactions) = 1

\* a step on which the slot loop of the current location ends: if the
\* location gave records they are all in the returned list and the location
\* loop is over, otherwise the next candidate location is at its first slot
\* (or the candidates are exhausted)
SlotLoopEnds ==
    IF sfi_transactions # <<>>
    THEN /\ pc' = "transactions read"
         /\ Len(transactions') = Len(transactions) + Len(sfi_transactions)
         /\ \A i \in 1..Len(sfi_transactions) :
               \E j \in 1..Len(transactions') : transactions'[j] = sfi_transactions[i]
    ELSE /\ transactions' = transactions
         /\ IF sfiIdx < Len(DEFAULT_SFIS)
            THEN pc' = "transactions" /\ sfiIdx' = sfiIdx + 1 /\ record_num' = 1
                   /\ sfi_transactions' = <<>>
            ELSE pc' = "transactions read"

\* C12: a transport fault on a read-record command ends the slot loop of
\* its location as a 'no more records' answer does: the records decoded at
\* the location are kept, the location loop stops if there is one and goes
\* to the next candidate otherwise, and the command after a fault is never
\* a read-record of the same location.
C12_FaultEndsSlotLoop ==
    /\ [][(Len(trace') = Len(trace) + 1 /\ resp'.fault) => SlotLoopEnds]_vars
    /\ [][(Len(trace') = Len(trace) + 1 /\ EndsSlots(resp')) => SlotLoopEnds]_vars
    /\ [][(Len(trace') = Len(trace) + 1 /\ trace # <<>> /\ resp.fault
             /\ IsRecordApdu(Last(trace).apdu) /\ IsRecordApdu(Last(trace').apdu))
            => /\ ApduSfi(Last(trace').apdu) # ApduSfi(Last(trace).apdu)
               /\ ApduSlot(Last(trace').apdu) = 1
               /\ sfi_transactions = <<>>]_vars

C12_Witness ==
    /\ resp.fault
    /\ pc = "transactions read"
    /\ Len(trace) = 2
    /\ Last(trace).apdu = RecordApdu(2, 24)
    /\ Len(transactions) = 1
    /\ sfiIdx = 1

\* C13: the list read_transactions returns is a permutation of the records
\* decoded during enumeration, and no entry's datetime string is smaller
\* than the datetime string of the entry after it.
C13_SortedPermutation ==
    pc = "transactions read"
        => /\ Len(transactions) = Len(sfi_transactions)
           /\ \E f \in [1..Len(transactions) -> 1..Len(transactions)] :
                 /\ \A i, j \in 1..Len(transactions) : f[i] = f[j] => i = j
                 /\ \A i \in 1..Len(transactions) : transactions[i] = sfi_transactions[f[i]]
           /\ \A i \in 1..(Len(transactions) - 1) :
                 ~StrLess(transactions[i].datetime, transactions[i + 1].datetime)

\* the record of 2024-01-01 10:00:00 was decoded first, the record of
\* 2024-01-02 09:00:00 second, and the returned list has them swapped
C13_Witness ==
    /\ pc = "transactions read"
    /\ Len(sfi_transactions) = 2
    /\ sfi_transactions[1].datetime =
          <<50, 48, 50, 52, 45, 48, 49, 45, 48, 49, 32, 49, 48, 58, 48, 48, 58, 48, 48>>
    /\ transactions[1].datetime =
          <<50, 48, 50, 52, 45, 48, 49, 45, 48, 50, 32, 48, 57, 58, 48, 48, 58, 48, 48>>
    /\ transactions = <<sfi_transactions[2], sfi_transactions[1]>>

\* the tags of the progress entries of the result, in order
LogTags == [i \in 1..Len(result.logs) |-> result.logs[i].tag]
Logged(tag) == \E i \in 1..Len(result.logs) : result.logs[i].tag = tag

\* C14 (as claimed): after a returned run with successful selection the
\* log holds one entry per stage in stage order: the selection outcome, the
\* balance or its failure, the record count, the identity fields or the
\* identity failure; none twice, none missing.
C14_OneEntryPerStage ==
    (selected = "yes" /\ returned)
        => \E b \in {"balance", "balance failed"} :
           \E t \in {"transactions", "no transactions"} :
           \E id \in {<<"card number", "start date", "valid date">>, <<"card number failed">>} :
              LogTags = <<"card ok", b, t>> \o id

\* C15 (as claimed): a returned result with success = false has a
\* non-empty message, and a returned result with success = true has a
\* failure line in its log for each absent field: the balance failure line
\* when balance is None, the identity failure line when card_info is None.
C15_FailureVisible ==
    returned
        => IF ~result.success
           THEN result.message # ""
           ELSE /\ result.balance = None => Logged("balance failed")
                /\ result.card_info = None => Logged("card number failed")

\* C16: read_balance sends 80 5C 00 02 04 and raises nothing; it returns a
\* balance exactly when the answer is no fault, has status 0x9000 and at
\* least 4 data bytes, and the balance in hundredths is then the big-endian
\* value of the first 4 bytes, whatever follows them.
C16_BalanceDecoding ==
    pc = "read_balance"
        => /\ ~ret.raised
           /\ trace = <<[apdu |-> <<128, 92, 0, 2, 4>>, conn |-> "open"]>>
           /\ ret.value # None
                 <=> (~resp.fault /\ resp.sw = <<144, 0>> /\ Len(resp.data) >= 4)
           /\ ret.value # None
                 => ret.value[1] = resp.data[1] * 16777216 + resp.data[2] * 65536
                                     + resp.data[3] * 256 + resp.data[4]

\* 00 00 27 10 followed by a fifth byte gives 100.00
C16_Witness ==
    /\ pc = "read_balance"
    /\ resp = Answer(<<0, 0, 39, 16, 127>>, SW_OK)
    /\ ret.value = Some(10000)

\* the bytes a text stands for, None when it is no hexadecimal text
Decodes(text) == BytesFromHex(RemoveSpaces(text))

\* C17: parse_transaction_record raises nothing; on a text that is no
\* valid hexadecimal or stands for fewer than 23 bytes it returns None, and
\* on a text of 23 bytes or more it returns a record whose five fields
\* amount, datetime, transport_type, station_gate_info and raw are all set.
C17_AbsentOrComplete ==
    pc = "parse_transaction_record"
        => /\ ~ret.raised
           /\ IF Decodes(arg) = None \/ Len(Decodes(arg)[1]) < 23
              THEN ret.value = None
              ELSE /\ ret.value # None
                   /\ DOMAIN ret.value[1] = {"amount", "datetime", "transport_type",
                                             "station_gate_info", "raw"}
                   /\ ret.value[1].amount \in Nat
                   /\ ret.value[1].datetime # <<>>
                   /\ ret.value[1].transport_type # <<>>
                   /\ Len(ret.value[1].station_gate_info) = 12
                   /\ ret.value[1].raw = arg

\* a text of 24 bytes with one character replaced by G
C17_Witness ==
    /\ pc = "parse_transaction_record"
    /\ Len(arg) = Len(BROKEN_TEXT)
    /\ \E i \in 1..Len(arg) : arg[i] = 71
    /\ ret.value = None

\* the 14 hex characters of bytes [16,20) and [20,23) of the record
DateTimeChars == HexUpper(SubSeq(Decodes(arg)[1], 17, 23))

\* 14 characters that are a valid YYYYMMDDHHMMSS date and time
ValidInstant(c) ==
    /\ \A i \in 1..14 : c[i] >= 48 /\ c[i] <= 57
    /\ ValidDate(DigitsVal(SubSeq(c, 1, 4)), DigitsVal(SubSeq(c, 5, 6)),
                 DigitsVal(SubSeq(c, 7, 8)))
    /\ ValidTime(DigitsVal(SubSeq(c, 9, 10)), DigitsVal(SubSeq(c, 11, 12)),
                 DigitsVal(SubSeq(c, 13, 14)))

\* YYYYMMDDHHMMSS written YYYY-MM-DD HH:MM:SS
WrittenInstant(c) ==
    <<c[1], c[2], c[3], c[4], 45, c[5], c[6], 45, c[7], c[8], 32,
      c[9], c[10], 58, c[11], c[12], 58, c[13], c[14]>>

\* C18 (as claimed): in the record made of 23 bytes or more, datetime is
\* the 14 hex characters of bytes [16,23) written YYYY-MM-DD HH:MM:SS when
\* they are a valid date and time, and the sentinel string otherwise.
C18_DatetimeRoundTrip ==
    (pc = "parse_transaction_record" /\ ret.value # None)
        => ret.value[1].datetime =
              IF ValidInstant(DateTimeChars) THEN WrittenInstant(DateTimeChars)
              ELSE UNKNOWN_DATETIME


\* the hex characters [lo,hi) of the answer to the identity read, as many
\* as the answer has
IdentityChars(lo, hi) ==
    LET h == HexUpper(resp.data)
    IN  IF Len(h) <= lo THEN <<>>
        ELSE SubSeq(h, lo + 1, IF Len(h) < hi THEN Len(h) ELSE hi)

\* 8 characters that are a valid YYYYMMDD calendar date
ValidDay(c) ==
    /\ Len(c) = 8
    /\ \A i \in 1..8 : c[i] >= 48 /\ c[i] <= 57
    /\ ValidDate(DigitsVal(SubSeq(c, 1, 4)), DigitsVal(SubSeq(c, 5, 6)),
                 DigitsVal(SubSeq(c, 7, 8)))

\* YYYYMMDD written YYYY/MM/DD
WrittenDay(c) == <<c[1], c[2], c[3], c[4], 47, c[5], c[6], 47, c[7], c[8]>>

\* C19 (as claimed): read_card_number raises nothing, and returns no
\* identity record when the answer is a fault, has a status other than
\* 0x9000, has no data, or when the characters [40,48) or [48,56) of its hex
\* text are no valid calendar date, an answer too short to hold them
\* included.
C19_NoIdentityOnFailure ==
    pc = "read_card_number"
        => /\ ~ret.raised
           /\ (\/ resp.fault
               \/ resp.sw # <<144, 0>>
               \/ resp.data = <<>>
               \/ ~ValidDay(IdentityChars(40, 48))
               \/ ~ValidDay(IdentityChars(48, 56)))
                 => ret.value = None

\* C20 (as claimed): in the record read_card_number returns, card_number
\* is the 20 characters [20,40) of the hex text of the answer, start_date
\* the characters [40,48) written YYYY/MM/DD and valid_date the characters
\* [48,56) written YYYY/MM/DD.
C20_IdentityFields ==
    (pc = "read_card_number" /\ ret.value # None)
        => /\ Len(ret.value[1].card_number) = 20
           /\ ret.value[1].card_number = IdentityChars(20, 40)
           /\ Len(IdentityChars(40, 48)) = 8
           /\ ret.value[1].start_date = WrittenDay(IdentityChars(40, 48))
           /\ Len(IdentityChars(48, 56)) = 8
           /\ ret.value[1].valid_date = WrittenDay(IdentityChars(48, 56))

\* the uppercase hex digits, as code points
HEX_DIGITS == <<48, 49, 50, 51, 52, 53, 54, 55, 56, 57, 65, 66, 67, 68, 69, 70>>
TwoHexDigits(b) == <<HEX_DIGITS[(b \div 16) + 1], HEX_DIGITS[(b % 16) + 1]>>

\* C21: in the record made of 23 bytes or more, amount (in hundredths) is
\* the big-endian value of bytes [5,9), transport_type is the label of byte
\* [9] in the table of 0x09, 0x02, 0x06 and 0x05 or else the unknown label
\* with the code as two uppercase hex digits, station_gate_info is bytes
\* [10,16) as 12 uppercase hex characters, and raw is the input text.
C21_RecordFields ==
    (pc = "parse_transaction_record" /\ ret.value # None)
        => LET data == Decodes(arg)[1]
               rec == ret.value[1]
           IN  /\ rec.amount = data[6] * 16777216 + data[7] * 65536 + data[8] * 256 + data[9]
               /\ rec.transport_type =
                     CASE data[10] = 9 -> <<"subway">>
                       [] data[10] = 2 -> <<"top-up">>
                       [] data[10] = 6 -> <<"bus">>
                       [] data[10] = 5 -> <<"purchase">>
                       [] OTHER -> <<"unknown", TwoHexDigits(data[10])>>
               /\ rec.station_gate_info =
                     TwoHexDigits(data[11]) \o TwoHexDigits(data[12]) \o TwoHexDigits(data[13])
                       \o TwoHexDigits(data[14]) \o TwoHexDigits(data[15])
                       \o TwoHexDigits(data[16])
               /\ rec.raw = arg

\* amount 00 00 01 F4, the unknown type code AB, station AB CD EF 00 01 FF
C21_Witness ==
    /\ pc = "parse_transaction_record"
    /\ ret.value # None
    /\ ret.value[1].amount = 500
    /\ ret.value[1].transport_type = <<"unknown", <<65, 66>>>>
    /\ ret.value[1].station_gate_info = <<65, 66, 67, 68, 69, 70, 48, 48, 48, 49, 70, 70>>
    /\ ret.value[1].raw = arg

\* P2 of the read-record command of each candidate location:
\* (24 << 3) | 4, (21 << 3) | 4, (18 << 3) | 4, (15 << 3) | 4, (3 << 3) | 4
\* and (2 << 3) | 4
LOCATION_P2 == <<196, 172, 148, 124, 28, 20>>

\* the maximum that applies to a call of read_transactions
SlotLimit == IF arg = None THEN 10 ELSE arg[1]

\* C22: every command of read_transactions is 00 B2 P1 P2 00 with P1 a
\* slot number from 1 to the maximum (10 when none is supplied, the
\* supplied one up to 20 otherwise) and P2 = (location << 3) | 4; the
\* first command is for slot 1, and a command is followed by the one for
\* the next slot of its location or by the one for slot 1 of a later
\* location.
C22_SlotsInOrder ==
    /\ \A i \in 1..Len(trace) :
          \E k \in 1..6 : \E n \in 1..SlotLimit :
             trace[i].apdu = <<0, 178, n, LOCATION_P2[k], 0>>
    /\ trace # <<>> => trace[1].apdu[3] = 1
    /\ \A i \in 1..(Len(trace) - 1) :
          \/ /\ trace[i + 1].apdu[4] = trace[i].apdu[4]
             /\ trace[i + 1].apdu[3] = trace[i].apdu[3] + 1
          \/ /\ trace[i + 1].apdu[3] = 1
             /\ \E k, l \in 1..6 : /\ k < l
                                   /\ trace[i].apdu[4] = LOCATION_P2[k]
                                   /\ trace[i + 1].apdu[4] = LOCATION_P2[l]

\* no maximum supplied, a card with a record in every slot: slot 10 of
\* location 24 was the last one queried
C22_Witness ==
    /\ arg = None
    /\ pc = "transactions read"
    /\ Len(trace) = 10
    /\ Last(trace).apdu = <<0, 178, 10, 196, 0>>
    /\ Len(transactions) = 10
    /\ resp = Answer(REC_A, SW_OK)

\* the place of a read-record command's location among the six candidates
\* 24, 21, 18, 15, 3, 2
LocIdx(apdu) == CHOOSE k \in 1..6 : LOCATION_P2[k] = apdu[4]

\* the commands sent to the location of the last command
AtLastLocation == {i \in 1..Len(trace) : trace[i].apdu[4] = Last(trace).apdu[4]}

\* C23: the locations are queried in the order 24, 21, 18, 15, 3, 2, none
\* skipped; read_transactions leaves a location for the next one only when
\* it decoded no record there, and decodes a record only while it has none
\* from an earlier location; the returned list holds at most max_records
\* records, all decoded at the location of the last command, and is empty
\* only if all six locations were queried and none gave a record.
C23_OneLocation ==
    /\ [](/\ trace # <<>> => LocIdx(trace[1].apdu) = 1
          /\ \A i \in 1..(Len(trace) - 1) :
                \/ LocIdx(trace[i + 1].apdu) = LocIdx(trace[i].apdu)
                \/ LocIdx(trace[i + 1].apdu) = LocIdx(trace[i].apdu) + 1)
    /\ [](pc = "transactions read"
            => /\ Len(transactions) <= max_records
               /\ Len(transactions) <= Cardinality(AtLastLocation)
               /\ Len(transactions) = Len(sfi_transactions)
               /\ transactions = <<>>
                     <=> (LocIdx(Last(trace).apdu) = 6 /\ sfi_transactions = <<>>))
    /\ [][(Len(trace') = Len(trace) + 1 /\ trace # <<>>
             /\ LocIdx(Last(trace').apdu) # LocIdx(Last(trace).apdu))
            => (sfi_transactions = <<>> /\ transactions = <<>>)]_vars
    /\ [][Decoded' > Decoded
            => (/\ transactions = <<>>
                /\ Decoded' = Decoded + 1
                /\ sfiIdx' = sfiIdx
                /\ LocIdx(Last(trace').apdu) = sfiIdx)]_vars

\* locations 24 and 21 gave nothing, location 18 gave two records
C23_Witness ==
    /\ pc = "transactions read"
    /\ max_records = 2
    /\ Len(trace) = 4
    /\ trace[1].apdu[4] = 196
    /\ trace[2].apdu[4] = 172
    /\ trace[3].apdu[4] = 148
    /\ trace[4].apdu[4] = 148
    /\ Len(transactions) = 2

\* C24: a result returned by read_card_info carries an identity record
\* only together with success = true and a balance.
C24_IdentityNeedsBalance ==
    (returned /\ result.card_info # None)
        => (result.success /\ result.balance # None)

\* the first balance read failed, the second one succeeded, and the
\* identity record was read
C24_Witness ==
    /\ returned
    /\ result.card_info # None
    /\ result.balance # None
    /\ Logged("balance failed")
    /\ Last(trace).apdu = CARD_NUMBER_APDU

\* the commands of a kind sent so far
Selects == {i \in 1..Len(trace) : trace[i].apdu[2] = 164}
BalanceQueries == {i \in 1..Len(trace) : trace[i].apdu = <<128, 92, 0, 2, 4>>}
RecordReads == {i \in 1..Len(trace) : trace[i].apdu[2] = 178}
IdentityReads == {i \in 1..Len(trace) : trace[i].apdu = <<0, 176, 149, 0, 0>>}

\* C25: a run of read_card_info never sends more than 2 select commands,
\* 2 stored-value queries, 60 read-record commands and 1 identity read, and
\* once entered (the connection is open, selection is about to start) it
\* returns, provided every transmit returns or raises.
C25_BoundedRun ==
    /\ [](/\ Cardinality(Selects) <= 2
          /\ Cardinality(BalanceQueries) <= 2
          /\ Cardinality(RecordReads) <= 60
          /\ Cardinality(IdentityReads) <= 1
          /\ Len(trace) = Cardinality(Selects) + Cardinality(BalanceQueries)
                            + Cardinality(RecordReads) + Cardinality(IdentityReads))
    /\ (pc = "select") ~> returned

\* the longest run: 2 selects, 2 stored-value queries, 60 read-record
\* commands that decoded nothing, 1 identity read
C25_Witness ==
    /\ returned
    /\ Len(trace) = 65
    /\ Cardinality(Selects) = 2
    /\ Cardinality(BalanceQueries) = 2
    /\ Cardinality(RecordReads) = 60
    /\ Cardinality(IdentityReads) = 1
    /\ result.transactions = <<>>

\* the sentinel of a record without a valid date and time
SENTINEL == <<26410, 30693, 26085, 26399, 26102, 38388>>

\* the records of a list that have the datetime string d, in list order
WithDatetime(list, d) == SelectSeq(list, LAMBDA t : t.datetime = d)

\* C26: in the list read_transactions returns, no record with a valid
\* timestamp comes before a record with the sentinel timestamp, and the
\* records of one timestamp string are in the order of the slots they were
\* read from.
C26_SentinelFirstStable ==
    pc = "transactions read"
        => /\ \A i, j \in 1..Len(transactions) :
                 (i < j /\ transactions[j].datetime = SENTINEL)
                    => transactions[i].datetime = SENTINEL
           /\ \A i \in 1..Len(transactions) :
                 WithDatetime(transactions, transactions[i].datetime)
                    = WithDatetime(sfi_transactions, transactions[i].datetime)

\* read in the order: 2024-01-01 10:00:00 (subway), invalid date, the same
\* 2024-01-01 10:00:00 (top-up); returned: the undated one, subway, top-up
C26_Witness ==
    /\ pc = "transactions read"
    /\ Len(transactions) = 3
    /\ sfi_transactions[2].datetime = SENTINEL
    /\ sfi_transactions[1].datetime = sfi_transactions[3].datetime
    /\ sfi_transactions[1] # sfi_transactions[3]
    /\ transactions = <<sfi_transactions[2], sfi_transactions[1], sfi_transactions[3]>>

\* the commands of the run so far that satisfy Is, in order
SentWhere(Is(_)) ==
    LET picked == SelectSeq(trace, LAMBDA e : Is(e.apdu))
    IN  [i \in 1..Len(picked) |-> picked[i].apdu]

IsBalanceApdu(a) == a = BALANCE_APDU

====
